---- MODULE Spec2Model ----
(* Model of the chat client of Class_Agent_React: the WebSocketService      *)
(* connection client, the useWebSocket session adapter and the message      *)
(* handling of the ChatInterface view (src/src/components/ChatInterface.tsx) *)
EXTENDS Integers, Sequences, FiniteSets, TLC

(***************************************************************************)
(* Bounds of the model                                                     *)
(***************************************************************************)
MaxSockets == 7
MaxSends == 2
MaxTimers == 2
MaxFrames == 2
MaxRegs == 2
MaxCalls == 2
MaxReads == 1

(***************************************************************************)
(* Program constants                                                       *)
(***************************************************************************)
maxReconnectAttempts == 5

VARIABLES
  ws,                 \* WebSocketService.ws: the WebSocket object it refers to, or Null
  detached,           \* WebSocket objects the service no longer refers to but whose
                      \* close event is still to come: how many of each kind
  created,            \* number of WebSocket objects constructed so far (counted up to MaxSockets)
  everOpened,         \* history: some handshake has succeeded
  closeCalled,        \* history: the public close() has been called
  reconnectAttempts,  \* WebSocketService.reconnectAttempts
  messageQueue,       \* WebSocketService.messageQueue
  isConnecting,       \* WebSocketService.isConnecting
  timers,             \* number of pending setTimeout(() => this.connect()) callbacks
  wire,               \* data handed to WebSocket.send, in order
  queued,             \* history: every string pushed on messageQueue, in order
  promises,           \* settlement state of the promise of each sendMessage call
  encoding,           \* sendMessage calls whose FileReader has not loaded yet
  connectionStatusCallbacks, \* WebSocketService.connectionStatusCallbacks (insertion order)
  status,             \* useWebSocket: the status state of the adapter
  mounted,            \* useWebSocket: the effect is active (between effect and cleanup)
  messageHandlers,    \* WebSocketService.messageHandlers (insertion order)
  removers,           \* the de-registration functions returned so far: for each
                      \* callback, how often each of them has been called
  arrivals,           \* number of inbound frames received so far
  messages,           \* ChatInterface: the messages state
  isLoading,          \* ChatInterface: the isLoading state
  inputText,          \* ChatInterface: the inputText state
  selectedFile,       \* ChatInterface: the selectedFile state, NoFile for null
  reading,            \* handleFileSelect: files whose FileReader has not loaded yet
  last                \* observation of the most recent step

vars == <<ws, detached, created, everOpened, closeCalled, reconnectAttempts, messageQueue, isConnecting, timers,
          wire, queued, promises, encoding, connectionStatusCallbacks, status, mounted,
          messageHandlers, removers, arrivals, messages, isLoading,
          inputText, selectedFile, reading, last>>

\* the state of the listeners of inbound frames and of the view
inboundVars == <<messageHandlers, removers, arrivals, messages, isLoading>>

\* the input area of the view
viewVars == <<inputText, selectedFile, reading>>

\* the state of the service that inbound frames and registrations leave alone
serviceVars == <<ws, detached, created, everOpened, closeCalled, reconnectAttempts,
                 messageQueue, isConnecting, timers, wire, queued, promises, encoding,
                 status, mounted>>

(***************************************************************************)
(* JavaScript values: objects with the fields the view reads, null, and    *)
(* strings. kind is <<"object">>, <<"null">> or <<"text">> (a string that  *)
(* is not JSON); <<"json">> \o k is the JSON text of a value of kind k.    *)
(***************************************************************************)
Undefined == "undefined"

Obj(type, st, message) ==
  [kind |-> <<"object">>, type |-> type, status |-> st, message |-> message,
   content |-> IF type = "welcome" THEN "greeting" ELSE Undefined,
   filename |-> IF type = "file" THEN "notes.pdf" ELSE Undefined]

JSNull == [Obj(Undefined, Undefined, Undefined) EXCEPT !.kind = <<"null">>]

\* the string not-json
NotJson == [Obj(Undefined, Undefined, Undefined) EXCEPT !.kind = <<"text">>]

NoFrame == [Obj(Undefined, Undefined, Undefined) EXCEPT !.kind = <<>>]

IsObject(v) == v.kind = <<"object">>

\* JSON.stringify(v)
JSONstringify(v) == [v EXCEPT !.kind = <<"json">> \o @]

\* JSON.parse(str): throws unless str is a JSON text
JSONparse(str) ==
  IF Len(str.kind) >= 2 /\ Head(str.kind) = "json"
  THEN [ok |-> TRUE, value |-> [str EXCEPT !.kind = Tail(@)]]
  ELSE [ok |-> FALSE, value |-> str]

\* inbound payloads: every combination of the fields the view tests
Payloads ==
  {Obj(ty, st, m) : ty \in {Undefined, "welcome", "file"},
                    st \in {Undefined, "error", "success"},
                    m \in {Undefined, "", "hello"}} \cup {JSNull}

\* inbound frames (event.data)
Frames == {JSONstringify(v) : v \in Payloads} \cup {NotJson}

\* a decodable object, a decodable null and an undecodable text
SomeFrames ==
  {JSONstringify(Obj(Undefined, Undefined, "hello")), JSONstringify(JSNull), NotJson}

(***************************************************************************)
(* The browser's WebSocket object                                          *)
(***************************************************************************)
\* private ws: WebSocket | null = null
Null == [readyState |-> "null", established |-> FALSE]

\* new WebSocket(url): readyState CONNECTING, handshake not completed
NewWebSocket == [readyState |-> "CONNECTING", established |-> FALSE]

\* WebSocket.close(): starts the closing handshake unless already closing/closed
wsClose(sock) ==
  IF sock.readyState \in {"CONNECTING", "OPEN"}
  THEN [sock EXCEPT !.readyState = "CLOSING"]
  ELSE sock

\* the service drops its reference to sock: sock stays alive in the browser
\* as long as it has a close event to deliver
Detach(d, sock) ==
  IF sock.readyState # "CLOSING" THEN d
  ELSE IF sock.established THEN [d EXCEPT !.open = @ + 1]
  ELSE [d EXCEPT !.connecting = @ + 1]

\* this.ws?.readyState === WebSocket.OPEN
IsOpen(s) == s.ws.readyState = "OPEN"

(***************************************************************************)
(* WebSocketService, as functions of the service state s                   *)
(***************************************************************************)
Svc == [ws |-> ws, detached |-> detached, created |-> created, everOpened |-> everOpened,
        reconnectAttempts |-> reconnectAttempts,
        messageQueue |-> messageQueue, isConnecting |-> isConnecting,
        timers |-> timers, wire |-> wire, queued |-> queued,
        connectionStatusCallbacks |-> connectionStatusCallbacks,
        status |-> status, notified |-> <<>>, seen |-> <<>>, threw |-> FALSE,
        made |-> FALSE]

\* the callback the adapter registers: (newStatus) => setStatus(newStatus)
AdapterCallback == "setStatus"

RECURSIVE callEach(_, _, _)
callEach(s, cbs, st) ==
  IF cbs = <<>> THEN s
  ELSE LET s1 == [s EXCEPT !.notified = Append(@, <<Head(cbs), st>>),
                           !.seen = Append(@, [reconnectAttempts |-> s.reconnectAttempts,
                                               messageQueue |-> s.messageQueue,
                                               wire |-> s.wire]),
                           !.status = IF Head(cbs) = AdapterCallback THEN st ELSE @]
       IN callEach(s1, Tail(cbs), st)

notifyConnectionStatus(s, st) == callEach(s, s.connectionStatusCallbacks, st)

getConnectionStatus(s) == IF IsOpen(s) THEN "connected" ELSE "disconnected"

connect(s) ==
  IF s.isConnecting THEN s
  ELSE LET s1 == [s EXCEPT !.isConnecting = TRUE]
           s2 == IF s1.ws # Null
                 THEN [s1 EXCEPT !.detached = Detach(@, wsClose(s1.ws)), !.ws = Null]
                 ELSE s1
       IN [s2 EXCEPT !.ws = NewWebSocket, !.made = TRUE,
                     !.created = IF @ < MaxSockets THEN @ + 1 ELSE @]

\* variant: the attempt counter is not compared with the maximum
handleReconnect_always(s) ==
  [s EXCEPT !.reconnectAttempts = @ + 1, !.timers = @ + 1]

\* variant: the attempt counter is compared with <= instead of <
handleReconnect_inclusive(s) ==
  IF s.reconnectAttempts <= maxReconnectAttempts
  THEN [s EXCEPT !.reconnectAttempts = @ + 1, !.timers = @ + 1]
  ELSE s

handleReconnect(s) ==
  IF s.reconnectAttempts < maxReconnectAttempts
  THEN [s EXCEPT !.reconnectAttempts = @ + 1, !.timers = @ + 1]
  ELSE s

\* WebSocket.send(data): throws InvalidStateError while CONNECTING, transmits
\* while OPEN, discards the data while CLOSING or CLOSED
wsSend(s, data) ==
  IF s.ws.readyState = "CONNECTING" THEN [s EXCEPT !.threw = TRUE]
  ELSE IF s.ws.readyState = "OPEN" THEN [s EXCEPT !.wire = Append(@, data)]
  ELSE s

\* variant: tests if (this.ws) instead of the readyState
send_anySocket(s, data) ==
  IF s.ws # Null
  THEN wsSend(s, data)
  ELSE LET s1 == [s EXCEPT !.messageQueue = Append(@, data),
                           !.queued = Append(@, data)]
       IN IF ~s1.isConnecting THEN connect(s1) ELSE s1

send(s, data) ==
  IF IsOpen(s)
  THEN wsSend(s, data)
  ELSE LET s1 == [s EXCEPT !.messageQueue = Append(@, data),
                           !.queued = Append(@, data)]
       IN IF ~s1.isConnecting THEN connect(s1) ELSE s1

\* variant: takes the strings with pop() instead of shift()
RECURSIVE processMessageQueue_pop(_)
processMessageQueue_pop(s) ==
  IF Len(s.messageQueue) > 0 /\ IsOpen(s)
  THEN LET message == s.messageQueue[Len(s.messageQueue)]
           s1 == [s EXCEPT !.messageQueue = SubSeq(@, 1, Len(@) - 1)]
       IN processMessageQueue_pop(send(s1, message))
  ELSE s

\* variant: if instead of while, a single string is taken per open event
processMessageQueue_if(s) ==
  IF Len(s.messageQueue) > 0 /\ IsOpen(s)
  THEN LET message == Head(s.messageQueue)
           s1 == [s EXCEPT !.messageQueue = Tail(@)]
       IN send(s1, message)
  ELSE s

RECURSIVE processMessageQueue(_)
processMessageQueue(s) ==
  IF Len(s.messageQueue) > 0 /\ IsOpen(s)
  THEN LET message == Head(s.messageQueue)
           s1 == [s EXCEPT !.messageQueue = Tail(@)]
       IN processMessageQueue(send(s1, message))
  ELSE s

\* variant: the listeners are notified before the queue is drained
onopen_notifyFirst(s) ==
  LET s1 == [s EXCEPT !.reconnectAttempts = 0, !.isConnecting = FALSE,
                      !.everOpened = TRUE]
  IN processMessageQueue(notifyConnectionStatus(s1, "connected"))

\* variant: the open handler does not reset the counter
onopen_noReset(s) ==
  LET s1 == [s EXCEPT !.isConnecting = FALSE, !.everOpened = TRUE]
  IN notifyConnectionStatus(processMessageQueue(s1), "connected")

onopen(s) ==
  LET s1 == [s EXCEPT !.reconnectAttempts = 0, !.isConnecting = FALSE,
                      !.everOpened = TRUE]
  IN notifyConnectionStatus(processMessageQueue(s1), "connected")

\* variant: the close handler does not notify the status listeners
onclose_noNotify(s) ==
  LET s1 == [s EXCEPT !.isConnecting = FALSE]
  IN handleReconnect(s1)

onclose(s) ==
  LET s1 == [s EXCEPT !.isConnecting = FALSE]
  IN handleReconnect(notifyConnectionStatus(s1, "disconnected"))

onerror(s) ==
  LET s1 == [s EXCEPT !.isConnecting = FALSE]
  IN notifyConnectionStatus(s1, "disconnected")

close(s) ==
  IF s.ws # Null
  THEN [s EXCEPT !.detached = Detach(@, wsClose(s.ws)), !.ws = Null]
  ELSE s

\* the envelope sendMessage builds
Envelope(text, hasFile) ==
  [kind |-> <<"object">>,
   text |-> text,
   fileData |-> IF hasFile THEN "base64" ELSE "null",
   filename |-> IF hasFile THEN "name" ELSE "null"]

\* variant: resolve() is missing after this.send(...)
settle_noResolve(threw) == IF threw THEN "rejected" ELSE "pending"

\* try { this.send(...); resolve(); } catch (error) { reject(error); }
settle(threw) == IF threw THEN "rejected" ELSE "resolved"

(***************************************************************************)
(* Listener sets (JavaScript Set: insertion order, identity)               *)
(***************************************************************************)
Range(f) == {f[k] : k \in DOMAIN f}

\* Set.prototype.add
setAdd(set, f) == IF f \in Range(set) THEN set ELSE Append(set, f)

\* variant: the set is emptied with clear() instead of delete(f)
setDelete_clear(set, f) == <<>>

\* Set.prototype.delete
setDelete(set, f) == SelectSeq(set, LAMBDA x : x # f)

\* the set a callback belongs to
MessageListeners == {"handleMessage", "listener"}
StatusListeners == {AdapterCallback, "onStatus"}
Callbacks == MessageListeners \cup StatusListeners

addMessageHandler(handlers, handler) == setAdd(handlers, handler)

\* the function addMessageHandler(handler) returns
removeMessageHandler(handlers, handler) == setDelete(handlers, handler)

addConnectionStatusCallback(callbacks, callback) == setAdd(callbacks, callback)

\* the function addConnectionStatusCallback(callback) returns
removeConnectionStatusCallback(callbacks, callback) == setDelete(callbacks, callback)

(***************************************************************************)
(* ChatInterface: handleMessage                                            *)
(***************************************************************************)
\* data.f: undefined on a string, the field on an object
Field(data, f) == IF IsObject(data) THEN data[f] ELSE Undefined

\* if (x): undefined and the empty string are falsy
Truthy(x) == x \notin {Undefined, ""}

\* the text of the message handleMessage appends, as <<prefix, rest>>
\* ("error: " stands for the prefix of line 94, "uploaded: " for that of line 102)
Render(data) ==
  IF Field(data, "type") = "welcome" THEN <<"", Field(data, "content")>>
  ELSE IF Field(data, "status") = "error" THEN <<"error: ", Field(data, "message")>>
  ELSE IF Field(data, "status") = "success"
       THEN IF Field(data, "type") = "file"
            THEN <<"uploaded: ", Field(data, "filename")>>
            ELSE <<"", Field(data, "message")>>
  ELSE IF Truthy(Field(data, "message")) THEN <<"", Field(data, "message")>>
  ELSE <<"", ToString(JSONstringify(data))>>

\* variant: the new message is put in front of the list
handleMessage_prepend(v, data) ==
  IF data.kind = <<"null">>
  THEN [v EXCEPT !.threw = TRUE]
  ELSE [v EXCEPT !.isLoading = FALSE,
                 !.messages = <<[text |-> Render(data), isUser |-> FALSE]>> \o @]

\* handleMessage(data) on the view state v: reading data.type of null throws
handleMessage(v, data) ==
  IF data.kind = <<"null">>
  THEN [v EXCEPT !.threw = TRUE]
  ELSE [v EXCEPT !.isLoading = FALSE,
                 !.messages = Append(@, [text |-> Render(data), isUser |-> FALSE])]

(***************************************************************************)
(* ChatInterface: the input area                                           *)
(***************************************************************************)
\* null or undefined in the place of a file: the value of selectedFile, of
\* event.target.files?.[0] and of the file field of a message
NoFile == [name |-> "null", type |-> "null", size |-> 0]

\* no call of sendMessage
NoData == [text |-> "", file |-> NoFile]

allowedTypes ==
  { "application/vnd.openxmlformats-officedocument.wordprocessingml.document",
    "image/png",
    "text/plain",
    "application/msword",
    "application/pdf",
    "application/vnd.ms-powerpoint",
    "application/vnd.openxmlformats-officedocument.presentationml.presentation" }

\* 10 * 1024 * 1024
maxFileSize == 10 * 1024 * 1024

\* file.type values a browser reports: the accepted ones, two formats the
\* README names (Excel, images other than PNG) and the empty type of a file
\* the browser does not recognise
FileTypes == allowedTypes \cup {"application/vnd.ms-excel", "image/jpeg", ""}

\* sizes around the limit
FileSizes == {0, maxFileSize, maxFileSize + 1}

File(type, size) == [name |-> "upload", type |-> type, size |-> size]

Files == {File(type, size) : type \in FileTypes, size \in FileSizes}

\* the texts of the input: empty, blank, and a word
InputTexts == {"", " ", "hello"}

\* String.prototype.trim
trim(text) == IF text = " " THEN "" ELSE text

\* variant: the size of the file is not checked
handleFileSelect_anySize(file) ==
  IF file = NoFile THEN "none"
  ELSE IF file.type \notin allowedTypes THEN "alert"
  ELSE "read"

\* what handleFileSelect does with event.target.files?.[0]: "none" (no
\* file), "alert" (rejected) or "read" (a FileReader is started)
handleFileSelect(file) ==
  IF file = NoFile THEN "none"
  ELSE IF file.type \notin allowedTypes THEN "alert"
  ELSE IF file.size > maxFileSize THEN "alert"
  ELSE "read"

\* the message handleSend shows at once for the text and the file selected
userMessage(text, file) ==
  [text |-> <<"", text>>, isUser |-> TRUE, file |-> file]

\* the argument handleSend gives to sendMessage
messageData(text, file) == [text |-> text, file |-> file]

\* the message of the catch branch of handleSend
errorMessage == [text |-> <<"", "send failed, retry">>, isUser |-> FALSE]

\* handleSend up to the await, on the view state v
handleSend(v) ==
  [v EXCEPT !.isLoading = TRUE,
            !.messages = Append(@, userMessage(v.inputText, v.selectedFile))]

\* variant: the catch branch appends no message
handleSendAwaited_silent(v, outcome) ==
  LET v1 == IF outcome = "rejected" THEN [v EXCEPT !.isLoading = FALSE] ELSE v
  IN [v1 EXCEPT !.inputText = "", !.selectedFile = NoFile]

\* handleSend after the await: catch when the promise was rejected, finally
handleSendAwaited(v, outcome) ==
  LET v1 == IF outcome = "rejected"
            THEN [v EXCEPT !.isLoading = FALSE,
                           !.messages = Append(@, errorMessage)]
            ELSE v
  IN [v1 EXCEPT !.inputText = "", !.selectedFile = NoFile]

(***************************************************************************)
(* WebSocketService: ws.onmessage                                          *)
(***************************************************************************)
\* handler(value): throwing are the listeners that throw in this event
callHandler(v, h, value, form, throwing) ==
  LET v1 == [v EXCEPT !.calls = Append(@, [fn |-> h, form |-> form])]
  IN IF h = "handleMessage" THEN handleMessage(v1, value)
     ELSE IF h \in throwing THEN [v1 EXCEPT !.threw = TRUE]
     ELSE v1

\* this.messageHandlers.forEach(handler => handler(value)): stops at a throw
RECURSIVE forEachHandler(_, _, _, _, _)
forEachHandler(v, hs, value, form, throwing) ==
  IF hs = <<>> \/ v.threw THEN v
  ELSE forEachHandler(callHandler(v, Head(hs), value, form, throwing),
                      Tail(hs), value, form, throwing)

\* try { data = JSON.parse(event.data); forEach(handler(data)) }
\* catch { forEach(handler(event.data)) }: threw says an exception escaped
onmessage(v, frame, throwing) ==
  LET p == JSONparse(frame)
      tried == IF p.ok
               THEN forEachHandler(v, v.messageHandlers, p.value, "decoded", throwing)
               ELSE [v EXCEPT !.threw = TRUE]
  IN IF tried.threw
     THEN forEachHandler([tried EXCEPT !.threw = FALSE], v.messageHandlers,
                         frame, "raw", throwing)
     ELSE tried

(***************************************************************************)
(* Steps of the program                                                    *)
(***************************************************************************)
CommitService(s, what) ==
  /\ ws' = s.ws
  /\ detached' = s.detached
  /\ created' = s.created
  /\ everOpened' = s.everOpened
  /\ reconnectAttempts' = s.reconnectAttempts
  /\ messageQueue' = s.messageQueue
  /\ isConnecting' = s.isConnecting
  /\ timers' = s.timers
  /\ wire' = s.wire
  /\ queued' = s.queued
  /\ connectionStatusCallbacks' = s.connectionStatusCallbacks
  /\ status' = s.status
  /\ last' = [what EXCEPT !.notified = s.notified,
                          !.seen = s.seen,
                          !.newSocket = s.made,
                          !.attempts = IF what.op = "open" THEN reconnectAttempts ELSE 0,
                          !.threw = s.threw]

\* a step of the service that does not call into the view
Commit(s, what) ==
  /\ CommitService(s, what)
  /\ UNCHANGED <<inboundVars, viewVars>>

\* op: the step; current: the event came from the socket the service refers to;
\* notified: the status callbacks invoked, in order; seen: the counter, the
\* queue and the transmitted data each of them found; newSocket: the step
\* constructed a WebSocket; attempts: the counter an open event found;
\* threw: an exception escaped the call
\* data: the messageData handleSend gave to sendMessage; file, alert: the file
\* handleFileSelect was given and whether it raised an alert;
\* frame: the inbound frame; calls: the message handlers invoked, in order,
\* each with the form of the value it was given; fn, again: the callback whose
\* de-registration function was called, and whether it had been called before
Obs(op) == [op |-> op, current |-> TRUE, notified |-> <<>>, seen |-> <<>>,
            newSocket |-> FALSE,
            attempts |-> 0, threw |-> FALSE, frame |-> NoFrame, calls |-> <<>>,
            fn |-> "", again |-> FALSE, data |-> NoData, file |-> NoFile,
            alert |-> FALSE]

InBounds(s) == s.timers <= MaxTimers

\* the handshake of the socket the service refers to succeeds: open event
SocketOpen ==
  /\ ws.readyState = "CONNECTING"
  /\ LET s0 == [Svc EXCEPT !.ws = [readyState |-> "OPEN", established |-> TRUE]]
     IN Commit(onopen(s0), Obs("open"))
  /\ UNCHANGED <<promises, encoding, mounted, closeCalled>>

\* the connection of the socket the service refers to ends: the browser sets
\* readyState CLOSED and fires error (when the connection failed) and then
\* close, in the same turn of the event loop
SocketClose(withError) ==
  /\ ws.readyState \in {"CONNECTING", "OPEN"}
  /\ ~ws.established => withError
  /\ LET s0 == [Svc EXCEPT !.ws.readyState = "CLOSED"]
         s1 == IF withError THEN onerror(s0) ELSE s0
         s == onclose(s1)
     IN /\ InBounds(s)
        /\ Commit(s, Obs(IF withError THEN "error+close" ELSE "close"))
  /\ UNCHANGED <<promises, encoding, mounted, closeCalled>>

\* the same for a socket the service closed and replaced (or dropped in
\* close()): its handlers are still attached
DetachedClose(kind, withError) ==
  /\ detached[kind] > 0
  /\ kind = "connecting" => withError
  /\ LET s0 == [Svc EXCEPT !.detached[kind] = @ - 1]
         s1 == IF withError THEN onerror(s0) ELSE s0
         s == onclose(s1)
     IN /\ InBounds(s)
        /\ Commit(s, [Obs(IF withError THEN "error+close" ELSE "close")
                        EXCEPT !.current = FALSE])
  /\ UNCHANGED <<promises, encoding, mounted, closeCalled>>

\* a reconnect timer fires: () => this.connect()
TimerFire ==
  /\ timers > 0
  /\ LET s == connect([Svc EXCEPT !.timers = @ - 1])
     IN /\ InBounds(s)
        /\ Commit(s, Obs("timer"))
  /\ UNCHANGED <<promises, encoding, mounted, closeCalled>>

\* sendMessage(mode, data): without a file the envelope is sent at once,
\* with a file a FileReader is started and the envelope is sent on its load
SendMessage(hasFile) ==
  /\ Len(promises) < MaxSends
  /\ LET id == Len(promises) + 1
         data == JSONstringify(Envelope(id, hasFile))
     IN IF hasFile
        THEN /\ promises' = Append(promises, "pending")
             /\ encoding' = encoding \cup {id}
             /\ Commit(Svc, Obs("sendMessage"))
        ELSE LET s == send(Svc, data)
             IN /\ promises' = Append(promises, settle(s.threw))
                /\ encoding' = encoding
                /\ Commit([s EXCEPT !.threw = FALSE], Obs("send"))
  /\ UNCHANGED <<mounted, closeCalled>>

\* reader.onload of the FileReader of call id
ReaderLoad(id) ==
  /\ id \in encoding
  /\ LET data == JSONstringify(Envelope(id, TRUE))
         s == send(Svc, data)
     IN /\ Commit([s EXCEPT !.threw = FALSE], Obs("send"))
        /\ promises' = [promises EXCEPT ![id] = settle(s.threw)]
  /\ encoding' = encoding \ {id}
  /\ UNCHANGED <<mounted, closeCalled>>

\* the public close()
Close ==
  /\ ws # Null
  /\ Commit(close(Svc), Obs("close()"))
  /\ closeCalled' = TRUE
  /\ UNCHANGED <<promises, encoding, mounted>>

\* useWebSocket: the effect subscribes and reads getConnectionStatus()
Mount ==
  /\ ~mounted
  /\ mounted' = TRUE
  /\ LET s1 == [Svc EXCEPT !.connectionStatusCallbacks =
                     addConnectionStatusCallback(@, AdapterCallback)]
         s == [s1 EXCEPT !.status = getConnectionStatus(s1)]
     IN Commit(s, Obs("mount"))
  /\ UNCHANGED <<promises, encoding, closeCalled>>

\* useWebSocket: the cleanup of the effect unsubscribes
Unmount ==
  /\ mounted
  /\ mounted' = FALSE
  /\ LET s == [Svc EXCEPT !.connectionStatusCallbacks =
                     removeConnectionStatusCallback(@, AdapterCallback)]
     IN Commit(s, Obs("unmount"))
  /\ UNCHANGED <<promises, encoding, closeCalled>>

\* number of registrations made so far
Registrations ==
  Len(removers["handleMessage"]) + Len(removers["listener"])
    + Len(removers["onStatus"]) + Len(removers[AdapterCallback])

\* addMessageHandler(f) or addConnectionStatusCallback(f) is called and
\* returns a new de-registration function
Register(f) ==
  /\ Registrations < MaxRegs
  /\ removers' = [removers EXCEPT ![f] = Append(@, 0)]
  /\ IF f \in MessageListeners
     THEN /\ messageHandlers' = addMessageHandler(messageHandlers, f)
          /\ UNCHANGED connectionStatusCallbacks
     ELSE /\ connectionStatusCallbacks' =
                addConnectionStatusCallback(connectionStatusCallbacks, f)
          /\ UNCHANGED messageHandlers
  /\ last' = [Obs("register") EXCEPT !.fn = f]
  /\ UNCHANGED <<serviceVars, arrivals, messages, isLoading, viewVars>>

\* the k-th de-registration function returned for f is called
Deregister(f, k) ==
  /\ k \in 1..Len(removers[f])
  /\ removers[f][k] < MaxCalls
  /\ removers' = [removers EXCEPT ![f][k] = @ + 1]
  /\ IF f \in MessageListeners
     THEN /\ messageHandlers' = removeMessageHandler(messageHandlers, f)
          /\ UNCHANGED connectionStatusCallbacks
     ELSE /\ connectionStatusCallbacks' =
                removeConnectionStatusCallback(connectionStatusCallbacks, f)
          /\ UNCHANGED messageHandlers
  /\ last' = [Obs("deregister") EXCEPT !.fn = f, !.again = (removers[f][k] >= 1)]
  /\ UNCHANGED <<serviceVars, arrivals, messages, isLoading, viewVars>>

\* a frame arrives on a socket whose connection is established: ws.onmessage
InboundMessage(frame, throwing) ==
  /\ ws.readyState = "OPEN" \/ detached.open > 0
  /\ arrivals < MaxFrames
  /\ arrivals' = arrivals + 1
  /\ LET v == onmessage([messageHandlers |-> messageHandlers, messages |-> messages,
                         isLoading |-> isLoading, calls |-> <<>>, threw |-> FALSE],
                        frame, throwing)
     IN /\ messages' = v.messages
        /\ isLoading' = v.isLoading
        /\ last' = [Obs("message") EXCEPT !.frame = frame, !.calls = v.calls,
                                          !.threw = v.threw]
  /\ UNCHANGED <<serviceVars, connectionStatusCallbacks, messageHandlers, removers,
                 viewVars>>

\* the view state handleSend reads and writes
View == [messages |-> messages, isLoading |-> isLoading,
         inputText |-> inputText, selectedFile |-> selectedFile]

CommitView(v) ==
  /\ messages' = v.messages
  /\ isLoading' = v.isLoading
  /\ inputText' = v.inputText
  /\ selectedFile' = v.selectedFile

\* onChange of the textarea, which is disabled while loading
TypeText(text) ==
  /\ ~isLoading
  /\ inputText' = text
  /\ last' = Obs("type")
  /\ UNCHANGED <<serviceVars, connectionStatusCallbacks, inboundVars, selectedFile, reading>>

\* onChange of the file input: handleFileSelect with the file the user chose
HandleFileSelect(file) ==
  /\ LET r == handleFileSelect(file)
     IN /\ r = "read" => (file \notin reading /\ Cardinality(reading) < MaxReads)
        /\ reading' = IF r = "read" THEN reading \cup {file} ELSE reading
        /\ last' = [Obs("select") EXCEPT !.file = file, !.alert = (r = "alert")]
  /\ UNCHANGED <<serviceVars, connectionStatusCallbacks, inboundVars, inputText, selectedFile>>

\* reader.onload of a FileReader started by handleFileSelect: the result of
\* readAsArrayBuffer is an ArrayBuffer
FileLoaded(file) ==
  /\ file \in reading
  /\ reading' = reading \ {file}
  /\ selectedFile' = file
  /\ last' = Obs("loaded")
  /\ UNCHANGED <<serviceVars, connectionStatusCallbacks, inboundVars, inputText>>

\* the remove button, shown while a file is selected
HandleRemoveFile ==
  /\ selectedFile # NoFile
  /\ selectedFile' = NoFile
  /\ last' = Obs("remove")
  /\ UNCHANGED <<serviceVars, connectionStatusCallbacks, inboundVars, inputText, reading>>

\* try { this.send(JSON.stringify(message)); resolve(); } catch { reject }
\* fails: an exception is thrown inside the try block. send itself throws
\* nothing, so this is an input that exercises the catch branches.
trySend(s, data, fails) ==
  IF fails THEN [s EXCEPT !.threw = TRUE] ELSE send(s, data)

\* the send button or Enter (both disabled while loading): handleSend. Without
\* a file the promise of sendMessage is settled when handleSend reaches its
\* await, and the rest of handleSend runs before any other event; with a
\* file it runs when the FileReader of sendMessage has loaded.
HandleSend(fails) ==
  /\ ~isLoading
  /\ Len(promises) < MaxSends
  /\ ~(trim(inputText) = "" /\ selectedFile = NoFile)
  /\ LET id == Len(promises) + 1
         v == handleSend(View)
         what == [Obs("handleSend") EXCEPT !.data = messageData(inputText, selectedFile)]
     IN IF selectedFile # NoFile
        THEN /\ ~fails
             /\ promises' = Append(promises, "pending")
             /\ encoding' = encoding \cup {id}
             /\ CommitView(v)
             /\ CommitService(Svc, what)
        ELSE LET s == trySend(Svc, JSONstringify(Envelope(id, FALSE)), fails)
             IN /\ promises' = Append(promises, settle(s.threw))
                /\ encoding' = encoding
                /\ CommitView(handleSendAwaited(v, settle(s.threw)))
                /\ CommitService(s, what)
  /\ UNCHANGED <<mounted, closeCalled, messageHandlers, removers, arrivals, reading>>

\* reader.onload of the FileReader of sendMessage call id, followed by the
\* rest of the handleSend that awaits it
UploadLoad(id, fails) ==
  /\ id \in encoding
  /\ LET s == trySend(Svc, JSONstringify(Envelope(id, TRUE)), fails)
     IN /\ promises' = [promises EXCEPT ![id] = settle(s.threw)]
        /\ CommitView(handleSendAwaited(View, settle(s.threw)))
        /\ CommitService(s, Obs("send"))
  /\ encoding' = encoding \ {id}
  /\ UNCHANGED <<mounted, closeCalled, messageHandlers, removers, arrivals, reading>>

\* state after useState(() => new WebSocketService()): the constructor called connect()
Init ==
  /\ ws = NewWebSocket
  /\ detached = [connecting |-> 0, open |-> 0]
  /\ created = 1
  /\ everOpened = FALSE
  /\ closeCalled = FALSE
  /\ reconnectAttempts = 0
  /\ messageQueue = <<>>
  /\ isConnecting = TRUE
  /\ timers = 0
  /\ wire = <<>>
  /\ queued = <<>>
  /\ promises = <<>>
  /\ encoding = {}
  /\ connectionStatusCallbacks = <<>>
  /\ status = "disconnected"
  /\ mounted = FALSE
  /\ messageHandlers = <<>>
  /\ removers = [f \in Callbacks |-> <<>>]
  /\ arrivals = 0
  /\ messages = <<>>
  /\ isLoading = FALSE
  /\ inputText = ""
  /\ selectedFile = NoFile
  /\ reading = {}
  /\ last = Obs("new")

\* the client with its adapter: socket events, timers, sendMessage calls
\* without a file (send is called in the same step), close(), and the
\* adapter's effect and cleanup
Next ==
  \/ SocketOpen
  \/ \E e \in BOOLEAN : SocketClose(e)
  \/ \E k \in {"connecting", "open"} : \E e \in BOOLEAN : DetachedClose(k, e)
  \/ TimerFire
  \/ SendMessage(FALSE)
  \/ Close
  \/ Mount
  \/ Unmount

Spec == Init /\ [][Next]_vars

\* the listener sets: registrations and de-registrations of message handlers
\* and status callbacks, inbound frames, and the open and close of the socket
NextListeners ==
  \/ \E f \in {"handleMessage", "listener", "onStatus"} : Register(f)
  \/ \E f \in {"handleMessage", "listener", "onStatus"} :
        \E k \in 1..MaxRegs : Deregister(f, k)
  \/ \E frame \in SomeFrames : \E throwing \in SUBSET {"listener"} :
        InboundMessage(frame, throwing)
  \/ SocketOpen
  \/ \E e \in BOOLEAN : SocketClose(e)

SpecListeners == Init /\ [][NextListeners]_vars

\* the view: its effect registers handleMessage, every kind of frame arrives
NextView ==
  \/ Register("handleMessage")
  \/ Deregister("handleMessage", 1)
  \/ \E frame \in Frames : InboundMessage(frame, {})
  \/ SocketOpen
  \/ \E e \in BOOLEAN : SocketClose(e)

SpecView == Init /\ [][NextView]_vars

(***************************************************************************)
(* Properties                                                              *)
(***************************************************************************)
\* a step in which the handshake of the current socket succeeds
OpenStep == ws.readyState = "CONNECTING" /\ ws'.readyState = "OPEN"

\* C1: whatever was pushed on the queue while the connection was not open is
\* transmitted when a connection opens, in the order it was appended, each
\* string exactly once, and the queue is empty afterwards; at any time the
\* strings ever queued are those already transmitted from the queue followed
\* by those still queued.
C1_QueueDrainedInOrder ==
  [][ /\ OpenStep => (wire' = wire \o messageQueue /\ messageQueue' = <<>>)
      /\ SelectSeq(wire', LAMBDA d : d \in Range(queued')) \o messageQueue' = queued'
    ]_vars

\* two strings were queued while disconnected and the open event has just
\* transmitted both
C1_Witness ==
  /\ last.op = "open"
  /\ Len(queued) >= 2
  /\ wire = queued
  /\ messageQueue = <<>>

\* C2 (as claimed): with no send and no successful handshake the client stops
\* after 5 failures: at most 5 sockets are ever constructed and no reconnect
\* timer is pending once the counter is at the maximum.
C2_NoSixthAttempt ==
  (Len(promises) = 0 /\ ~everOpened) =>
     /\ created <= maxReconnectAttempts
     /\ reconnectAttempts = maxReconnectAttempts => timers = 0

\* C2 (amended): with no send and no successful handshake the client makes
\* the first attempt and at most 5 reconnect attempts: sockets constructed
\* plus reconnects still scheduled never exceed 6, so a 7th socket is
\* never constructed.
C2_StopsAfterMaxReconnects ==
  (Len(promises) = 0 /\ ~everOpened) =>
     created + timers <= maxReconnectAttempts + 1

\* the 6th socket has failed and nothing is scheduled any more
C2_Witness ==
  /\ Len(promises) = 0 /\ ~everOpened
  /\ created = maxReconnectAttempts + 1
  /\ ws.readyState = "CLOSED"
  /\ reconnectAttempts = maxReconnectAttempts
  /\ timers = 0
  /\ detached = [connecting |-> 0, open |-> 0]

\* a step in which a sendMessage call hands its envelope to send: the promise
\* of call id settles (a call without a file does so in the step that issues it)
Settles(id) ==
  /\ id \in 1..Len(promises')
  /\ promises'[id] # "pending"
  /\ id > Len(promises) \/ promises[id] = "pending"

SendCall == \E id \in 1..MaxSends : Settles(id)

SentData ==
  LET id == CHOOSE k \in 1..MaxSends : Settles(k)
  IN JSONstringify(Envelope(id, id <= Len(promises)))

C4_CounterResetOnlyOnOpen ==
  [][ IF OpenStep
      THEN reconnectAttempts' = 0
      ELSE reconnectAttempts' >= reconnectAttempts
    ]_vars

\* an open event found a positive counter and reset it
C4_Witness ==
  /\ last.op = "open"
  /\ last.attempts >= 2
  /\ reconnectAttempts = 0

\* C5: while the adapter is mounted its status is getConnectionStatus():
\* "connected" exactly when the current channel is open. (close() is a call of
\* the owner, not an event callback: states after it are left out.)
C5_StatusInSync ==
  (mounted /\ ~closeCalled) => status = getConnectionStatus(Svc)

\* the service on its own (socket events, timers and sendMessage calls; no
\* adapter and no close()), where every FileReader started by sendMessage
\* eventually loads
NextService ==
  \/ SocketOpen
  \/ \E e \in BOOLEAN : SocketClose(e)
  \/ \E k \in {"connecting", "open"} : \E e \in BOOLEAN : DetachedClose(k, e)
  \/ TimerFire
  \/ \E f \in BOOLEAN : SendMessage(f)
  \/ \E id \in encoding : ReaderLoad(id)

FairSpec ==
  Init /\ [][NextService]_vars /\ \A id \in 1..MaxSends : WF_vars(ReaderLoad(id))

\* C7: the promise of a sendMessage call is resolved exactly when its envelope
\* has been handed to send (transmitted or queued), it is never rejected as
\* send never fails, and a pending promise eventually settles.
C7_SendMessageSettles ==
  /\ [](\A id \in 1..Len(promises) :
          /\ promises[id] # "rejected"
          /\ promises[id] = "resolved" <=>
               \E f \in BOOLEAN :
                  JSONstringify(Envelope(id, f)) \in Range(wire) \cup Range(queued))
  /\ \A id \in 1..MaxSends :
        (Len(promises) >= id /\ promises[id] = "pending")
           ~> (Len(promises) >= id /\ promises[id] \in {"resolved", "rejected"})

\* a call with a file resolved although its envelope was only queued
C7_Witness ==
  \E id \in 1..Len(promises) :
     /\ promises[id] = "resolved"
     /\ JSONstringify(Envelope(id, TRUE)) \in Range(messageQueue)
     /\ ws.readyState # "OPEN"

\* the calls of handler h in the most recent inbound event
CallsOf(h) == SelectSeq(last.calls, LAMBDA c : c.fn = h)

\* C6: after an inbound frame every registered message listener has been
\* called exactly once, with the decoded value when the frame decodes and with
\* the raw frame when it does not, and no exception escaped the handler.
C6_OneFormPerListener ==
  last.op = "message" =>
     /\ ~last.threw
     /\ \A h \in Range(messageHandlers) :
           /\ Len(CallsOf(h)) = 1
           /\ CallsOf(h)[1].form =
                 IF JSONparse(last.frame).ok THEN "decoded" ELSE "raw"

\* C8 (as claimed): a second call of a de-registration function leaves both
\* listener sets as they are and does not throw, and an event invokes only
\* listeners that were registered before it.
C8_SecondCallNoEffect ==
  [][ /\ (last'.op = "deregister" /\ last'.again) =>
            /\ messageHandlers' = messageHandlers
            /\ connectionStatusCallbacks' = connectionStatusCallbacks
            /\ ~last'.threw
      /\ \A k \in 1..Len(last'.calls) : last'.calls[k].fn \in Range(messageHandlers)
      /\ \A k \in 1..Len(last'.notified) :
            last'.notified[k][1] \in Range(connectionStatusCallbacks)
    ]_vars

Without(set, f) == SelectSeq(set, LAMBDA x : x # f)

\* C8 (amended): a second call of a de-registration function does not throw
\* and never touches a listener other than its own callback: it has no effect
\* when that callback is not registered, and removes it when the same callback
\* has been registered again in the meantime; an event invokes only listeners
\* that were registered before it.
C8_SecondCallRemovesOnlyOwn ==
  [][ /\ (last'.op = "deregister" /\ last'.again) =>
            /\ Without(messageHandlers', last'.fn) = Without(messageHandlers, last'.fn)
            /\ Without(connectionStatusCallbacks', last'.fn)
                 = Without(connectionStatusCallbacks, last'.fn)
            /\ last'.fn \notin Range(messageHandlers') \cup Range(connectionStatusCallbacks')
            /\ last'.fn \notin Range(messageHandlers) \cup Range(connectionStatusCallbacks)
                 => /\ messageHandlers' = messageHandlers
                    /\ connectionStatusCallbacks' = connectionStatusCallbacks
            /\ ~last'.threw
      /\ \A k \in 1..Len(last'.calls) : last'.calls[k].fn \in Range(messageHandlers)
      /\ \A k \in 1..Len(last'.notified) :
            last'.notified[k][1] \in Range(connectionStatusCallbacks)
    ]_vars

\* a de-registration function was called a second time while a listener
\* registered after its first call is in the set, and that listener stayed
C8_Witness ==
  /\ last.op = "deregister"
  /\ last.again
  /\ Range(messageHandlers) \cup Range(connectionStatusCallbacks) # {}

\* position of a listener in the set
Pos(h) == CHOOSE k \in 1..Len(messageHandlers) : messageHandlers[k] = h

\* C9: the listeners invoked for one arrival are invoked in the order of
\* their registration: no listener is called after one registered later.
\* (Arrival order holds by the event loop: the handler of a frame has
\* finished before the next frame is handled.)
C9_RegistrationOrder ==
  last.op = "message" =>
     \A i, j \in 1..Len(last.calls) :
        i < j => Pos(last.calls[i].fn) <= Pos(last.calls[j].fn)

\* the payload of a frame: the decoded value, or the raw frame when it does
\* not decode
PayloadOf(frame) == IF JSONparse(frame).ok THEN JSONparse(frame).value ELSE frame

\* the five rules, rule 4 applying whenever a message field is present
ClaimedText(data) ==
  CASE Field(data, "type") = "welcome" -> <<"", Field(data, "content")>>
    [] Field(data, "type") # "welcome" /\ Field(data, "status") = "error"
         -> <<"error: ", Field(data, "message")>>
    [] Field(data, "type") = "file" /\ Field(data, "status") = "success"
         -> <<"uploaded: ", Field(data, "filename")>>
    [] Field(data, "type") \notin {"welcome", "file"} /\ Field(data, "status") = "success"
         -> <<"", Field(data, "message")>>
    [] /\ Field(data, "type") # "welcome"
       /\ Field(data, "status") \notin {"error", "success"}
       /\ Field(data, "message") # Undefined
         -> <<"", Field(data, "message")>>
    [] OTHER -> <<"", ToString(JSONstringify(data))>>

\* C10: for every inbound frame the view appends exactly one
\* message, with the text of the first matching rule; a payload with a message
\* field present is rendered by rule 4 at the latest.
C10_FirstMatchingRule ==
  [][ (last'.op = "message" /\ "handleMessage" \in Range(messageHandlers)) =>
         messages' = Append(messages, [text |-> ClaimedText(PayloadOf(last'.frame)),
                                       isUser |-> FALSE])
    ]_vars

\* C12: when the adapter has been torn down (the cleanup of its effect has
\* run) the connection is destroyed: no channel is open or connecting and no
\* reconnect timer is left to start a new connection attempt.
C12_TeardownDestroys ==
  last.op = "unmount" =>
     /\ ws.readyState \notin {"CONNECTING", "OPEN"}
     /\ timers = 0

\* C14: a reconnect timer that fires while the current channel is open
\* leaves that channel open and constructs no socket.
C14_OpenChannelKept ==
  [][ (last'.op = "timer" /\ ws.readyState = "OPEN") =>
         /\ ws' = ws
         /\ ~last'.newSocket
    ]_vars

\* C15: a close or error event of a socket the client has replaced does not
\* change the failed-attempt counter or the re-entrancy flag, notifies no
\* connection-status listener and schedules no reconnect. (Without close()
\* every socket the service no longer refers to was replaced by connect().)
C15_StaleEventsIgnored ==
  [][ (last'.op \in {"close", "error+close"} /\ ~last'.current /\ ~closeCalled) =>
         /\ reconnectAttempts' = reconnectAttempts
         /\ isConnecting' = isConnecting
         /\ last'.notified = <<>>
         /\ timers' = timers
    ]_vars

\* a step that calls connect(): a reconnect timer fires, or send is called
\* while the channel is not open and the re-entrancy flag is clear or set
ConnectRequest ==
  \/ last'.op = "timer"
  \/ last'.op = "send" /\ ws.readyState # "OPEN"

\* C16: a connect request made while a connection attempt is in flight
\* constructs no socket, closes none and changes nothing but the queue, so a
\* channel that is connecting is never replaced before it opens or fails.
C16_ConnectingNotReplaced ==
  [][ /\ (ConnectRequest /\ isConnecting) =>
             /\ ws' = ws /\ detached' = detached /\ ~last'.newSocket
             /\ isConnecting' /\ reconnectAttempts' = reconnectAttempts
      /\ ws.readyState = "CONNECTING" => ~last'.newSocket
    ]_vars

\* the strings of q from position n + 1 on
Drop(q, n) == SubSeq(q, n + 1, Len(q))

\* C19: a string is pushed on the queue only in a step that finds the channel
\* not open; strings leave the queue only in a step that leaves the channel
\* open, from the head, and none of them is pushed again in that step; and
\* after every step the queue is empty when the channel is open.
C19_QueueDiscipline ==
  [][ /\ queued' # queued =>
            /\ ws.readyState # "OPEN"
            /\ messageQueue' = messageQueue \o Drop(queued', Len(queued))
      /\ queued' = queued =>
            \E n \in 0..Len(messageQueue) :
               /\ messageQueue' = Drop(messageQueue, n)
               /\ n > 0 => ws'.readyState = "OPEN"
      /\ ws'.readyState = "OPEN" => messageQueue' = <<>>
    ]_vars

\* the channel is open with an empty queue after one string was queued and
\* drained and a later one was transmitted directly
C19_Witness ==
  /\ ws.readyState = "OPEN"
  /\ messageQueue = <<>>
  /\ Len(queued) = 1
  /\ Len(wire) = 2
  /\ wire[1] = queued[1]

\* C20: once close() has been called and as long as send is not called, the
\* close event of a socket the service dropped schedules no reconnect and no
\* step constructs a socket that was not scheduled before close().
C20_CloseIsFinal ==
  [][ (closeCalled /\ promises' = <<>> /\ ~last'.current) =>
         /\ timers' = timers
         /\ ~last'.newSocket
    ]_vars

\* the client with its status listeners: the adapter's callback and a second
\* callback, socket events, timers and sendMessage calls without a file
NextStatus ==
  \/ SocketOpen
  \/ \E e \in BOOLEAN : SocketClose(e)
  \/ \E k \in {"connecting", "open"} : \E e \in BOOLEAN : DetachedClose(k, e)
  \/ TimerFire
  \/ SendMessage(FALSE)
  \/ Mount
  \/ Register("onStatus")
  \/ Deregister("onStatus", 1)

SpecStatus == Init /\ [][NextStatus]_vars

\* a step in which the socket the service refers to delivers its close event
\* (after its error event when the connection failed)
FailureStep ==
  /\ ws.readyState \in {"CONNECTING", "OPEN"}
  /\ ws'.readyState = "CLOSED"

\* C17: when the current channel fails, with or without an error event and
\* whether it was connecting or open, every registered connection-status
\* listener is called with "disconnected" and nothing else, and one reconnect
\* timer is scheduled (and the counter incremented) exactly when the counter
\* is below the maximum.
C17_FailureNotifiesAndReconnects ==
  [][ FailureStep =>
        /\ \A f \in Range(connectionStatusCallbacks) :
              <<f, "disconnected">> \in Range(last'.notified)
        /\ \A n \in Range(last'.notified) : n[2] = "disconnected"
        /\ IF reconnectAttempts < maxReconnectAttempts
           THEN /\ timers' = timers + 1
                /\ reconnectAttempts' = reconnectAttempts + 1
           ELSE /\ timers' = timers
                /\ reconnectAttempts' = reconnectAttempts
    ]_vars

\* an open channel was closed without an error event: both listeners were
\* notified once and a reconnect was scheduled
C17_Witness ==
  /\ last.op = "close" /\ last.current
  /\ everOpened
  /\ Len(last.notified) = 2
  /\ timers = 1
  /\ reconnectAttempts = 1

\* C18: when the channel goes from connecting to open, every status listener
\* is called with "connected" and at the moment of each call the counter is 0,
\* the queue is empty and everything that was queued before has been
\* transmitted, in order.
C18_OpenSideEffectsInOrder ==
  [][ OpenStep =>
        /\ Len(last'.notified) = Len(connectionStatusCallbacks)
        /\ \A i \in DOMAIN last'.notified :
              /\ last'.notified[i] = <<connectionStatusCallbacks[i], "connected">>
              /\ last'.seen[i].reconnectAttempts = 0
              /\ last'.seen[i].messageQueue = <<>>
              /\ last'.seen[i].wire = wire \o messageQueue
    ]_vars

\* after a failed attempt two listeners were notified of an open that had
\* found a positive counter and a queued string
C18_Witness ==
  /\ last.op = "open"
  /\ last.attempts >= 1
  /\ Len(last.seen) = 2
  /\ Len(queued) >= 1
  /\ last.seen[2].wire = queued

\* a file that handleFileSelect accepts
SomeFile == File("application/pdf", maxFileSize)

\* the chat view on top of the service: typing, the selection of a file,
\* handleSend, inbound frames, and the opening of the socket
NextSend ==
  \/ \E text \in InputTexts \ {""} : TypeText(text)
  \/ HandleFileSelect(SomeFile)
  \/ FileLoaded(SomeFile)
  \/ \E fails \in BOOLEAN : HandleSend(fails)
  \/ \E id \in 1..MaxSends : \E fails \in BOOLEAN : UploadLoad(id, fails)
  \/ InboundMessage(JSONstringify(Obj(Undefined, Undefined, "hello")), {})
  \/ SocketOpen

\* state after the first render of ChatInterface: the service is constructed
\* and the effect of the view has registered handleMessage
InitSend ==
  /\ ws = NewWebSocket
  /\ detached = [connecting |-> 0, open |-> 0]
  /\ created = 1
  /\ everOpened = FALSE
  /\ closeCalled = FALSE
  /\ reconnectAttempts = 0
  /\ messageQueue = <<>>
  /\ isConnecting = TRUE
  /\ timers = 0
  /\ wire = <<>>
  /\ queued = <<>>
  /\ promises = <<>>
  /\ encoding = {}
  /\ connectionStatusCallbacks = <<>>
  /\ status = "disconnected"
  /\ mounted = FALSE
  /\ messageHandlers = addMessageHandler(<<>>, "handleMessage")
  /\ removers = [f \in Callbacks |-> IF f = "handleMessage" THEN <<0>> ELSE <<>>]
  /\ arrivals = 0
  /\ messages = <<>>
  /\ isLoading = FALSE
  /\ inputText = ""
  /\ selectedFile = NoFile
  /\ reading = {}
  /\ last = [Obs("register") EXCEPT !.fn = "handleMessage"]

SpecSend == InitSend /\ [][NextSend]_vars

\* the file input of the chat view: every kind of file is chosen, or the
\* dialog is cancelled; the selected file is removed, or given to sendMessage
\* by handleSend
NextFiles ==
  \/ \E file \in Files \cup {NoFile} : HandleFileSelect(file)
  \/ \E file \in Files : FileLoaded(file)
  \/ HandleRemoveFile
  \/ HandleSend(FALSE)

SpecFiles == Init /\ [][NextFiles]_vars

\* a step in which the promise of sendMessage call id is rejected, or resolved
Rejected(id) == Settles(id) /\ promises'[id] = "rejected"

Resolved(id) == Settles(id) /\ promises'[id] = "resolved"

\* C11: when the promise of sendMessage is rejected the view appends the one
\* "send failed" message after the user message it has already shown, which
\* stays as it is, and clears the loading flag; when the promise is resolved
\* it appends nothing more and leaves the loading flag alone; and the
\* loading flag is cleared only by a rejection or by an inbound payload. (A
\* call without a file settles in the step that shows the user message.)
C11_SendFailureShown ==
  [][ /\ \A id \in 1..Len(promises') :
            Rejected(id) =>
               /\ ~isLoading'
               /\ IF id > Len(promises)
                  THEN messages' = messages \o
                          <<userMessage(inputText, selectedFile), errorMessage>>
                  ELSE /\ messages' = Append(messages, errorMessage)
                       /\ \E k \in DOMAIN messages : messages[k].isUser
      /\ \A id \in 1..Len(promises') :
            Resolved(id) =>
               IF id > Len(promises)
               THEN /\ messages' = Append(messages, userMessage(inputText, selectedFile))
                    /\ isLoading'
               ELSE /\ messages' = messages
                    /\ isLoading' = isLoading
      /\ (isLoading /\ ~isLoading') =>
            \/ last'.op = "message"
            \/ \E id \in 1..Len(promises') : Rejected(id)
    ]_vars

\* a first call was resolved and answered by an inbound payload; the upload of
\* a second call was rejected while the view was loading: the failure message
\* is the last one and the loading flag is clear
C11_Witness ==
  /\ Len(promises) = 2
  /\ promises[1] = "resolved"
  /\ promises[2] = "rejected"
  /\ last.op = "send"
  /\ Len(messages) = 4
  /\ messages[3].isUser /\ messages[3].file = SomeFile
  /\ messages[4] = errorMessage
  /\ ~isLoading

\* the accepted uploads: docx, doc, png, plain text, pdf, ppt and pptx, of at
\* most 10 * 1024 * 1024 bytes
Accepted(file) ==
  /\ file.type \in
       { "application/vnd.openxmlformats-officedocument.wordprocessingml.document",
         "application/msword", "image/png", "text/plain", "application/pdf",
         "application/vnd.ms-powerpoint",
         "application/vnd.openxmlformats-officedocument.presentationml.presentation" }
  /\ file.size <= 10485760

C21_OneTimerPending == timers <= 1

\* C25: the failed-attempt counter is between 0 and the maximum of 5.
C25_CounterInRange ==
  reconnectAttempts \in 0..maxReconnectAttempts

\* after a connection had been open and a string had been sent, the counter
\* is at the maximum and a failure has just left it there
C25_Witness ==
  /\ reconnectAttempts = maxReconnectAttempts
  /\ everOpened
  /\ Len(promises) >= 1
  /\ last.op = "error+close"
  /\ timers = 0

\* C22: envelopes are handed to send in the order of their sendMessage
\* calls: when the envelope of a call has been handed to send (its promise is
\* settled), so has the envelope of every earlier call.
C22_SendOrder ==
  \A i, j \in 1..Len(promises) :
     (i < j /\ promises[j] # "pending") => promises[i] # "pending"

\* the message list of the chat view: text is typed and sent, the send
\* succeeds or fails, and frames of every kind (a decodable object, a
\* decodable null, an undecodable text) arrive on the open socket
NextMessages ==
  \/ TypeText("hello")
  \/ \E fails \in BOOLEAN : HandleSend(fails)
  \/ \E frame \in SomeFrames : InboundMessage(frame, {})
  \/ SocketOpen
  \/ \E e \in BOOLEAN : SocketClose(e)

SpecMessages == InitSend /\ [][NextMessages]_vars

\* messages' is messages followed by n more messages
Appended(n) ==
  /\ Len(messages') = Len(messages) + n
  /\ SubSeq(messages', 1, Len(messages)) = messages

\* C24: every step leaves the message list unchanged or appends one message
\* at its end, the messages already in it staying as they are and where they
\* are. (A handleSend without a file whose sendMessage fails is two operations
\* in one step, the user message and then the failure message.)
C24_AppendOnly ==
  [][ \/ messages' = messages
      \/ Appended(1)
      \/ /\ Appended(2)
         /\ \E id \in 1..Len(promises') : id > Len(promises) /\ Rejected(id)
         /\ messages'[Len(messages')] = errorMessage
         /\ messages'[Len(messages') - 1].isUser
    ]_vars

\* a user message, the failure message of its send, and then the message of
\* an inbound frame that did not decode
C24_Witness ==
  /\ Len(messages) = 3
  /\ messages[1].isUser
  /\ messages[2] = errorMessage
  /\ last.op = "message" /\ last.frame = NotJson
  /\ ~messages[3].isUser

\* the chat view while the server fails: text is typed and sent, sockets
\* open, fail and are reconnected by the timers, and an answer may arrive
NextLoading ==
  \/ TypeText("hello")
  \/ HandleSend(FALSE)
  \/ SocketOpen
  \/ \E e \in BOOLEAN : SocketClose(e)
  \/ \E k \in {"connecting", "open"} : \E e \in BOOLEAN : DetachedClose(k, e)
  \/ TimerFire
  \/ InboundMessage(JSONstringify(Obj(Undefined, Undefined, "hello")), {})

SpecLoading == InitSend /\ [][NextLoading]_vars

\* nothing is left that could clear the loading flag or transmit the queue:
\* the socket is neither open nor connecting, no reconnect timer is pending,
\* no replaced socket has a close event to deliver and no upload is encoded
Quiescent ==
  /\ ws.readyState \notin {"CONNECTING", "OPEN"}
  /\ timers = 0
  /\ detached = [connecting |-> 0, open |-> 0]
  /\ encoding = {}

\* C23: the view is never loading (input and send button disabled) in a
\* state where the client is disconnected with no attempt in flight and no
\* reconnect timer pending.
C23_NeverStuckLoading == isLoading => ~Quiescent

====
